---- MODULE Spec2Model ----
(***************************************************************************)
(* Model of internal/docs/rest/rest.go: the reStructuredText generator of  *)
(* mongocli.  GenTree walks a cobra command tree children-first and writes *)
(* one page per visited command; GenCustom renders one page.               *)
(*                                                                         *)
(* Strings are sequences of byte values, so that CommandPath, ReplaceAll,  *)
(* the file name and the link markup are computed as the code computes     *)
(* them.  Commands are 1..MaxCmds; the default help command cobra creates  *)
(* for command c is MaxCmds + c.                                           *)
(***************************************************************************)
EXTENDS Naturals, Integers, Sequences, FiniteSets, TLC

VARIABLES
    parent,             \* cmd.Parent(): 0 for the root of the tree
    name,               \* cmd.Name()
    available,          \* cmd.IsAvailableCommand()
    helpTopic,          \* cmd.IsAdditionalHelpTopicCommand()
    commands,           \* cmd.Commands(): the stored slice of children
    DisableAutoGenTag,  \* cmd.DisableAutoGenTag
    flags,              \* names of the flags defined on the command
    faulty,             \* whether the file system may fail in this run
    stack,              \* the GenTreeCustom invocations in progress
    err,                \* the error being returned, "nil" if none
    status,             \* "idle", "running", "ok" or "error"
    root,               \* the command GenTree was called with, 0 before
    files,              \* the output directory: file name -> contents
    open,               \* the open file handles (by owning command)
    log,                \* history: file system events in order
    visits,             \* history: commands GenTreeCustom was entered for
    pages,              \* history: the page GenCustom last built per command
    given,              \* history: the tree as it was handed to the generator
    input,              \* indentString: the text block given
    output              \* indentString: [done, text], the result once called

treeVars == <<parent, name, available, helpTopic, commands, DisableAutoGenTag, flags>>
runVars == <<faulty, stack, err, status, root, files, open, log, visits, pages, given>>
textVars == <<input, output>>
vars == <<treeVars, runVars, textVars>>

----------------------------------------------------------------------------
(* Bounds *)

MaxCmds == 3
MaxLen == 4

(* Byte values of the characters the code names *)
Space == 32
Hyphen == 45
Underscore == 95
Newline == 10
Backquote == 96
LessThan == 60
GreaterThan == 62

Cmds == 1 .. MaxCmds
NoCmd == 0
HelpOf(c) == MaxCmds + c
IsHelp(x) == x > MaxCmds

\* "B", "B-a", "a": ascending in byte order; "a" < "B" would hold ignoring case
NameB == <<66>>
NameBa == <<66, 45, 97>>
Namea == <<97>>
Names == {NameB, NameBa, Namea}
NameSeq == <<NameB, NameBa, Namea>>
HelpName == <<104, 101, 108, 112>>
Ext == <<46, 116, 120, 116>>
Dir == <<100>>
Slash == <<47>>

----------------------------------------------------------------------------
(* The cobra.Command accessors the generator reads *)

Name(x) == IF IsHelp(x) THEN HelpName ELSE name[x]
Parent(x) == IF IsHelp(x) THEN x - MaxCmds ELSE parent[x]
HasParent(x) == Parent(x) # NoCmd
IsAvailableCommand(x) == IF IsHelp(x) THEN FALSE ELSE available[x]
IsAdditionalHelpTopicCommand(x) == IF IsHelp(x) THEN FALSE ELSE helpTopic[x]
\* cmd.Short: one text per command, told apart by the command it describes
Short(x) == x

RECURSIVE CommandPath(_)
CommandPath(x) ==
    IF HasParent(x) THEN CommandPath(Parent(x)) \o <<Space>> \o Name(x)
    ELSE Name(x)

RECURSIVE Ancestors(_)
Ancestors(x) ==
    IF HasParent(x) THEN {Parent(x)} \cup Ancestors(Parent(x)) ELSE {}

Range(s) == {s[i] : i \in 1 .. Len(s)}

\* cmd.Commands() is the stored slice itself: commands[c], in the stored
\* order, shared with the tree (sorting it sorts the tree's own slice)

----------------------------------------------------------------------------
(* Pure helpers of rest.go *)

\* strings.ReplaceAll(s, old, new) for one-byte old and new
ReplaceAll(s, old, new) ==
    [i \in 1 .. Len(s) |-> IF s[i] = old THEN new ELSE s[i]]

\* Go's < on strings: byte-wise lexicographic
RECURSIVE StrLess(_, _)
StrLess(s, t) ==
    IF t = <<>> THEN FALSE
    ELSE IF s = <<>> THEN TRUE
    ELSE IF Head(s) # Head(t) THEN Head(s) < Head(t)
    ELSE StrLess(Tail(s), Tail(t))

Less(a, b) == StrLess(Name(a), Name(b))

RECURSIVE Insert(_, _)
Insert(x, s) ==
    IF s = <<>> THEN <<x>>
    ELSE IF Less(x, Head(s)) THEN <<x>> \o s
    ELSE <<Head(s)>> \o Insert(x, Tail(s))

\* faulty variant: the children are left in their stored order
SortNone(s) == s

\* sort.Sort(byName(children)); sibling names are distinct, so the order of
\* the result does not depend on the sorting algorithm
RECURSIVE SortByName(_)
SortByName(s) ==
    IF s = <<>> THEN <<>> ELSE Insert(Head(s), SortByName(Tail(s)))

\* faulty variant: help topics are not passed over
SkippedUnavailableOnly(x) == ~IsAvailableCommand(x)

\* the test of lines 42, 123 and 147: the child is passed over
Skipped(x) == ~IsAvailableCommand(x) \/ IsAdditionalHelpTopicCommand(x)

Basename(x) == ReplaceAll(CommandPath(x), Space, Hyphen) \o Ext
Filename(x) == Dir \o Slash \o Basename(x)

defaultLinkHandler(nm, ref) ==
    <<Backquote>> \o nm \o <<Space, LessThan>> \o ref \o Ext
        \o <<GreaterThan, Backquote, Underscore>>

\* faulty variant: empty lines are prefixed too
RECURSIVE indentEvery(_, _, _)
indentEvery(s, p, bol) ==
    IF s = <<>> THEN <<>>
    ELSE (IF bol THEN p ELSE <<>>)
            \o <<Head(s)>> \o indentEvery(Tail(s), p, Head(s) = Newline)

RECURSIVE indentFrom(_, _, _)
indentFrom(s, p, bol) ==
    IF s = <<>> THEN <<>>
    ELSE (IF bol /\ Head(s) # Newline THEN p ELSE <<>>)
            \o <<Head(s)>> \o indentFrom(Tail(s), p, Head(s) = Newline)

indentString(s, p) == indentFrom(s, p, TRUE)

----------------------------------------------------------------------------
(* GenCustom: what rendering command c does to the tree and what it writes *)

\* cmd.InitDefaultHelpCmd(): a command with subcommands gets the default
\* help command, removed and added again at the end of its children
InitDefaultHelpCmd(c) ==
    IF commands[c] = <<>> THEN <<>>
    ELSE Append(SelectSeq(commands[c], LAMBDA x : x # HelpOf(c)), HelpOf(c))

\* cmd.InitDefaultHelpFlag(): defines the flag "help" if it is not there
InitDefaultHelpFlag(c) == flags[c] \cup {"help"}

\* faulty variant: any child counts, eligible or not
hasSeeAlsoAnyChild(c, kids) == HasParent(c) \/ kids # <<>>

hasSeeAlso(c, kids) ==
    \/ HasParent(c)
    \/ \E i \in 1 .. Len(kids) : ~Skipped(kids[i])

\* faulty variant: only the direct parent is looked at
VisitParentOnly(c) ==
    IF DisableAutoGenTag[Parent(c)] THEN TRUE ELSE DisableAutoGenTag[c]

\* cmd.VisitParents(...): the value of cmd.DisableAutoGenTag afterwards
VisitParents(c) ==
    IF \E a \in Ancestors(c) : DisableAutoGenTag[a] THEN TRUE
    ELSE DisableAutoGenTag[c]

\* the children slice after GenCustom(c): sorted in place when the
\* See Also section is written
ChildrenAfter(c) ==
    LET kids == InitDefaultHelpCmd(c)
    IN  IF hasSeeAlso(c, kids) THEN SortByName(kids) ELSE kids

TagAfter(c) ==
    IF hasSeeAlso(c, InitDefaultHelpCmd(c)) /\ HasParent(c) THEN VisitParents(c)
    ELSE DisableAutoGenTag[c]

Ref(path) == ReplaceAll(path, Space, Underscore)

ParentEntry(c) ==
    IF HasParent(c)
    THEN LET pname == CommandPath(Parent(c))
         IN  <<[link |-> defaultLinkHandler(pname, Ref(pname)),
                short |-> Short(Parent(c))]>>
    ELSE <<>>

RECURSIVE ChildEntries(_, _)
ChildEntries(c, kids) ==
    IF kids = <<>> THEN <<>>
    ELSE LET child == Head(kids)
             cname == CommandPath(c) \o <<Space>> \o Name(child)
         IN  (IF Skipped(child) THEN <<>>
              ELSE <<[link |-> defaultLinkHandler(cname, Ref(cname)),
                      short |-> Short(child)]>>)
             \o ChildEntries(c, Tail(kids))

\* the page: title, whether See Also is present and its entries, footer
Page(c) ==
    LET see == hasSeeAlso(c, InitDefaultHelpCmd(c))
    IN  [title |-> CommandPath(c),
         seeAlso |-> see,
         entries |-> IF see THEN ParentEntry(c) \o ChildEntries(c, ChildrenAfter(c))
                     ELSE <<>>,
         footer |-> ~TagAfter(c)]

NoPage == [title |-> <<>>, seeAlso |-> FALSE, entries |-> <<>>, footer |-> FALSE]

\* the tree after GenCustom(c)
GenCustomTree(c) ==
    /\ commands' = [commands EXCEPT ![c] = ChildrenAfter(c)]
    /\ flags' = [flags EXCEPT ![c] = InitDefaultHelpFlag(c)]
    /\ DisableAutoGenTag' = [DisableAutoGenTag EXCEPT ![c] = TagAfter(c)]
    /\ UNCHANGED <<parent, name, available, helpTopic>>

----------------------------------------------------------------------------
(* GenTreeCustom: one frame per invocation *)

Reverse(s) == [i \in 1 .. Len(s) |-> s[Len(s) + 1 - i]]
\* faulty variant: the children are walked from the last to the first
FrameReversed(c) == [cmd |-> c, kids |-> Reverse(commands[c]), i |-> 1, pc |-> "loop"]

Frame(c) == [cmd |-> c, kids |-> commands[c], i |-> 1, pc |-> "loop"]
Top == stack[Len(stack)]
Pop == SubSeq(stack, 1, Len(stack) - 1)
SetTop(f) == [stack EXCEPT ![Len(stack)] = f]
Running == status = "running" /\ stack # <<>>

\* the invocation on top returns e to its caller, or to the caller of GenTree
Return(e) ==
    /\ stack' = Pop
    /\ err' = e
    /\ status' = IF Len(stack) > 1 THEN "running"
                 ELSE IF e = "nil" THEN "ok" ELSE "error"

\* os.Create: the file exists and is empty, its handle is open
Create(c) ==
    /\ files' = (Filename(c) :> <<>>) @@ files
    /\ open' = open \cup {c}
    /\ log' = Append(log, [op |-> "create", cmd |-> c, file |-> Filename(c)])

\* defer f.Close()
Close(c, events) ==
    /\ open' = open \ {c}
    /\ log' = events \o <<[op |-> "close", cmd |-> c, file |-> Filename(c)]>>

\* GenTree(cmd, dir)
GenTree(r) ==
    /\ status = "idle"
    /\ status' = "running"
    /\ root' = r
    /\ stack' = <<Frame(r)>>
    /\ visits' = <<r>>
    /\ UNCHANGED <<treeVars, textVars, faulty, err, files, open, log, pages, given>>

\* lines 42-44: the child is unavailable or a help topic
Skip ==
    /\ Running /\ err = "nil" /\ Top.pc = "loop" /\ Top.i <= Len(Top.kids)
    /\ Skipped(Top.kids[Top.i])
    /\ stack' = SetTop([Top EXCEPT !.i = @ + 1])
    /\ UNCHANGED <<treeVars, textVars, faulty, err, status, root, files, open, log,
                   visits, pages, given>>

\* line 45: recurse into the child
Descend ==
    /\ Running /\ err = "nil" /\ Top.pc = "loop" /\ Top.i <= Len(Top.kids)
    /\ ~Skipped(Top.kids[Top.i])
    /\ stack' = Append(SetTop([Top EXCEPT !.i = @ + 1]), Frame(Top.kids[Top.i]))
    /\ visits' = Append(visits, Top.kids[Top.i])
    /\ UNCHANGED <<treeVars, textVars, faulty, err, status, root, files, open, log, pages, given>>

\* faulty variant: the child's error is dropped and the loop goes on
ReturnErrIgnored ==
    /\ Running /\ err # "nil" /\ Top.pc = "loop"
    /\ err' = "nil"
    /\ UNCHANGED <<treeVars, textVars, faulty, stack, status, root, files, open, log,
                   visits, pages, given>>

\* lines 45-47: the child returned an error, return it
ReturnErr ==
    /\ Running /\ err # "nil" /\ Top.pc = "loop"
    /\ Return(err)
    /\ UNCHANGED <<treeVars, textVars, faulty, root, files, open, log, visits, pages, given>>

\* lines 50-56: the loop is over, create the command's file
CreateOk ==
    /\ Running /\ err = "nil" /\ Top.pc = "loop" /\ Top.i > Len(Top.kids)
    /\ Create(Top.cmd)
    /\ stack' = SetTop([Top EXCEPT !.pc = "prepend"])
    /\ UNCHANGED <<treeVars, textVars, faulty, err, status, root, visits, pages, given>>

\* lines 52-55: os.Create fails
CreateFail ==
    /\ Running /\ err = "nil" /\ Top.pc = "loop" /\ Top.i > Len(Top.kids)
    /\ faulty
    /\ Return("create")
    /\ UNCHANGED <<treeVars, textVars, faulty, root, files, open, log, visits, pages, given>>

\* line 58: the prepender's text (empty for GenTree) is written
PrependOk ==
    /\ Running /\ Top.pc = "prepend"
    /\ stack' = SetTop([Top EXCEPT !.pc = "render"])
    /\ UNCHANGED <<treeVars, textVars, faulty, err, status, root, files, open, log,
                   visits, pages, given>>

\* faulty variant: the error path returns without closing the file
PrependFailLeak ==
    /\ Running /\ Top.pc = "prepend"
    /\ faulty
    /\ Return("write")
    /\ UNCHANGED <<treeVars, textVars, faulty, root, files, open, log, visits, pages, given>>

\* lines 58-60: the write fails; the deferred Close runs
PrependFail ==
    /\ Running /\ Top.pc = "prepend"
    /\ faulty
    /\ Close(Top.cmd, log)
    /\ Return("write")
    /\ UNCHANGED <<treeVars, textVars, faulty, root, files, visits, pages, given>>

\* lines 61-64: GenCustom writes the page; return nil, the deferred Close runs
RenderOk ==
    /\ Running /\ Top.pc = "render"
    /\ GenCustomTree(Top.cmd)
    /\ pages' = [pages EXCEPT ![Top.cmd] = Page(Top.cmd)]
    /\ files' = [files EXCEPT ![Filename(Top.cmd)] = Append(@, Page(Top.cmd))]
    /\ Close(Top.cmd, Append(log, [op |-> "write", cmd |-> Top.cmd,
                                    file |-> Filename(Top.cmd)]))
    /\ Return("nil")
    /\ UNCHANGED <<textVars, faulty, root, visits, given>>

\* lines 61-63: GenCustom has built the page and buf.WriteTo(w) fails
RenderFail ==
    /\ Running /\ Top.pc = "render"
    /\ faulty
    /\ GenCustomTree(Top.cmd)
    /\ pages' = [pages EXCEPT ![Top.cmd] = Page(Top.cmd)]
    /\ Close(Top.cmd, log)
    /\ Return("write")
    /\ UNCHANGED <<textVars, faulty, root, files, visits, given>>

----------------------------------------------------------------------------
(* Initial states: the command trees handed to the generator *)

Perms(S) == {s \in [1 .. Cardinality(S) -> S] : \A i, j \in 1 .. Cardinality(S) : i # j => s[i] # s[j]}

\* every command but 1 has a parent created before it
Parents == {par \in [Cmds -> 0 .. MaxCmds] : par[1] = NoCmd /\ \A c \in Cmds \ {1} : par[c] \in 1 .. c - 1}

\* cobra finds a subcommand by its name: siblings have distinct names
SiblingsDistinct(par, nm) ==
    \A x, y \in Cmds : x # y /\ par[x] = par[y] => nm[x] # nm[y]

DefaultName == [c \in Cmds |-> NameSeq[((c + 1) % Len(NameSeq)) + 1]]
AllTrue == [c \in Cmds |-> TRUE]
AllFalse == [c \in Cmds |-> FALSE]

InitRun ==
    /\ stack = <<>> /\ err = "nil" /\ status = "idle" /\ root = NoCmd
    /\ files = <<>> /\ open = {} /\ log = <<>> /\ visits = <<>>
    /\ pages = [c \in Cmds |-> NoPage]
    /\ given = [commands |-> commands, tags |-> DisableAutoGenTag, flags |-> flags]

InitTree ==
    /\ parent \in Parents
    /\ \E order \in Perms(Cmds) :      \* the children in any stored order
          commands = [c \in Cmds |-> SelectSeq(order, LAMBDA x : parent[x] = c)]
    /\ flags = [c \in Cmds |-> {}]
    /\ \/ /\ name = DefaultName         \* eligibility varies, the file system may fail
          /\ available \in [Cmds -> BOOLEAN]
          /\ helpTopic \in [Cmds -> BOOLEAN]
          /\ DisableAutoGenTag = AllFalse
          /\ faulty = TRUE
       \/ /\ name \in {nm \in [Cmds -> Names] : SiblingsDistinct(parent, nm)}
          /\ available \in [Cmds -> BOOLEAN]
          /\ helpTopic = AllFalse
          /\ DisableAutoGenTag = AllFalse
          /\ faulty = FALSE
       \/ /\ name = DefaultName         \* the tags vary
          /\ available \in [Cmds -> BOOLEAN]
          /\ helpTopic = AllFalse
          /\ DisableAutoGenTag \in [Cmds -> BOOLEAN]
          /\ faulty = FALSE

Init ==
    /\ InitTree
    /\ InitRun
    /\ input = <<>> /\ output = [done |-> FALSE, text |-> <<>>]

Next ==
    \/ \E r \in Cmds : GenTree(r)
    \/ Skip
    \/ Descend
    \/ ReturnErr
    \/ CreateOk
    \/ CreateFail
    \/ PrependOk
    \/ PrependFail
    \/ RenderOk
    \/ RenderFail

Spec == Init /\ [][Next]_vars

----------------------------------------------------------------------------
(* indentString on its own: any text of spaces, newlines and a letter *)

Bytes == {Space, Newline, 97}
Texts == UNION {[1 .. n -> Bytes] : n \in 0 .. MaxLen}

InitIndent ==
    /\ parent = [c \in Cmds |-> IF c = 1 THEN NoCmd ELSE 1]
    /\ commands = [c \in Cmds |-> SelectSeq([i \in 1 .. MaxCmds |-> i], LAMBDA x : parent[x] = c)]
    /\ name = DefaultName
    /\ available = AllTrue /\ helpTopic = AllFalse /\ DisableAutoGenTag = AllFalse
    /\ flags = [c \in Cmds |-> {}]
    /\ faulty = FALSE
    /\ InitRun
    /\ input \in Texts
    /\ output = [done |-> FALSE, text |-> <<>>]

\* indentString(s, " ") as printOptionsReST and GenCustom call it
Indent ==
    /\ ~output.done
    /\ output' = [done |-> TRUE, text |-> indentString(input, <<Space>>)]
    /\ UNCHANGED <<treeVars, runVars, input>>

NextIndent == Indent

SpecIndent == InitIndent /\ [][NextIndent]_vars

----------------------------------------------------------------------------
(* Vocabulary of the properties, stated on the tree and not on the code     *)

\* an eligible command: available and not a help-topic placeholder
Eligible(c) == available[c] /\ ~helpTopic[c]
Children(c) == {x \in Cmds : parent[x] = c}
Subtree(r) == {c \in Cmds : c = r \/ r \in Ancestors(c)}

\* c is r, or an eligible command all of whose ancestors below r are eligible
RECURSIVE Reached(_, _)
Reached(c, r) ==
    \/ c = r
    \/ parent[c] # NoCmd /\ Eligible(c) /\ Reached(parent[c], r)
Walked(r) == {c \in Cmds : Reached(c, r)}

\* the full command path: the names from the root of the tree down to c
RECURSIVE FullPath(_)
FullPath(c) ==
    IF parent[c] = NoCmd THEN name[c] ELSE FullPath(parent[c]) \o <<32>> \o name[c]
Hyphenated(s) == [i \in 1 .. Len(s) |-> IF s[i] = 32 THEN 45 ELSE s[i]]
\* <path with hyphens>.txt and <dir>/<path with hyphens>.txt
ExpectedBase(c) == Hyphenated(FullPath(c)) \o <<46, 116, 120, 116>>
ExpectedFile(c) == Dir \o <<47>> \o ExpectedBase(c)

Rendered(c) == pages[c] # NoPage
Visited(c) == c \in Range(visits)
VisitPos(c) == CHOOSE i \in 1 .. Len(visits) : visits[i] = c
Events(op, c) == {i \in 1 .. Len(log) : log[i].op = op /\ log[i].cmd = c}
ChildPart(c) ==
    IF parent[c] = NoCmd THEN pages[c].entries ELSE Tail(pages[c].entries)

----------------------------------------------------------------------------
(* C1 *)

\* C1 as claimed: after a successful run the files are exactly one distinct
\* file per eligible command of the subtree of the root, named
\* <dir>/<path with hyphens>.txt, and none for an ineligible command.
C1_AsClaimed ==
    status = "ok" =>
        LET E == {c \in Subtree(root) : Eligible(c)}
        IN  /\ DOMAIN files = {ExpectedFile(c) : c \in E}
            /\ Cardinality(DOMAIN files) = Cardinality(E)

\* C1 amended: after a successful run the files are exactly the files
\* <dir>/<path with hyphens>.txt of the root (eligible or not) and of every
\* command reached from it through eligible commands only; each holds the one
\* page of a command with that file name.
C1_FilesOfWalked ==
    status = "ok" =>
        /\ DOMAIN files = {ExpectedFile(c) : c \in Walked(root)}
        /\ \A fn \in DOMAIN files :
              /\ Len(files[fn]) = 1
              /\ \E c \in Walked(root) :
                    ExpectedFile(c) = fn /\ files[fn][1].title = FullPath(c)

C1_Witness ==
    /\ status = "ok"
    /\ ~Eligible(root)
    /\ \E c \in Subtree(root) : Eligible(c) /\ c \notin Walked(root)
    /\ ExpectedFile(root) \in DOMAIN files

----------------------------------------------------------------------------
(* C2 *)

\* C2: once a create or a write has failed, the error is kept and returned,
\* no file is created or written, no command is visited, no page is built
\* and the tree is left alone; the run ends in that error.
C2_FirstErrorAborts ==
    /\ [][err # "nil" =>
            /\ err' = err
            /\ files' = files /\ visits' = visits /\ pages' = pages
            /\ \A i \in 1 .. Len(log') : i > Len(log) => log'[i].op = "close"
            /\ treeVars' = treeVars]_vars
    /\ [](stack = <<>> /\ err # "nil" => status = "error")
    /\ [](status = "error" => err # "nil")

C2_Witness ==
    /\ status = "error"
    /\ files # <<>>
    /\ \E c \in Walked(root) : ~Visited(c)
    /\ \E c \in Walked(root) : Visited(c) /\ Events("create", c) = {}

----------------------------------------------------------------------------
(* C3 *)

\* C3: a rendered page has a See Also section iff the command has a parent
\* or an eligible child; its entries are the parent, if any, first and then
\* the eligible children, each once, and nothing else.
C3_SeeAlso ==
    \A c \in Cmds : Rendered(c) =>
        LET pg == pages[c]
            kids == {x \in Children(c) : Eligible(x)}
        IN  /\ pg.seeAlso <=> (parent[c] # NoCmd \/ kids # {})
            /\ ~pg.seeAlso => pg.entries = <<>>
            /\ pg.seeAlso =>
                  /\ parent[c] # NoCmd =>
                        /\ pg.entries # <<>>
                        /\ pg.entries[1].short = Short(parent[c])
                  /\ {ChildPart(c)[i].short : i \in 1 .. Len(ChildPart(c))}
                        = {Short(x) : x \in kids}
                  /\ Len(ChildPart(c)) = Cardinality(kids)

C3_Witness ==
    \E c \in Cmds :
        /\ Rendered(c) /\ pages[c].seeAlso
        /\ \E x \in Children(c) : Eligible(x)
        /\ \E x \in Children(c) : ~Eligible(x)

----------------------------------------------------------------------------
(* C4 *)

----------------------------------------------------------------------------
(* C5 *)

Disabled(c) == \E a \in {c} \cup Ancestors(c) : given.tags[a]

\* C5: a rendered command has the tag disabled iff it or one of its ancestors
\* had it disabled in the given tree, and its page has the footer iff not;
\* a command that was not rendered keeps its flag.
C5_FooterFollowsAncestors ==
    \A c \in Cmds :
        /\ Rendered(c) =>
              /\ DisableAutoGenTag[c] <=> Disabled(c)
              /\ pages[c].footer <=> ~Disabled(c)
        /\ ~Rendered(c) => DisableAutoGenTag[c] = given.tags[c]

\* the flag came from the grandparent, and the parent was rendered later
C5_Witness ==
    \E c \in Cmds :
        /\ Rendered(c) /\ ~pages[c].footer
        /\ ~given.tags[c]
        /\ parent[c] # NoCmd /\ ~given.tags[parent[c]]
        /\ Rendered(parent[c]) /\ ~pages[parent[c]].footer

----------------------------------------------------------------------------
(* C6 *)

\* C6 as claimed: whatever was rendered, every command has the children, in
\* the stored order, and the flags it was given.
C6_TreeUntouched ==
    \A c \in Cmds :
        /\ commands[c] = given.commands[c]
        /\ flags[c] = given.flags[c]

----------------------------------------------------------------------------
(* C7 *)

\* the lines of a text: one more than it has newlines
RECURSIVE SplitLines(_)
SplitLines(s) ==
    IF s = <<>> THEN << <<>> >>
    ELSE IF Head(s) = 10 THEN << <<>> >> \o SplitLines(Tail(s))
    ELSE LET r == SplitLines(Tail(s))
         IN  << <<Head(s)>> \o r[1] >> \o Tail(r)

RECURSIVE JoinLines(_)
JoinLines(ls) ==
    IF Len(ls) = 1 THEN ls[1] ELSE ls[1] \o <<10>> \o JoinLines(Tail(ls))

\* a non-empty line without its one-space prefix
Unprefixed(line) ==
    IF line # <<>> /\ Head(line) = 32 THEN Tail(line) ELSE line

\* C7: the result has the lines of the input, each non-empty one behind one
\* space and each empty one as it was; taking the space off every non-empty
\* line gives the input back.
C7_IndentRoundTrip ==
    output.done =>
        LET ins == SplitLines(input)
            outs == SplitLines(output.text)
        IN  /\ Len(outs) = Len(ins)
            /\ \A i \in 1 .. Len(ins) :
                  outs[i] = IF ins[i] = <<>> THEN <<>> ELSE <<32>> \o ins[i]
            /\ JoinLines([i \in 1 .. Len(outs) |-> Unprefixed(outs[i])]) = input

\* a text with an empty line, a line that starts with a space and a
\* trailing newline
C7_Witness ==
    /\ output.done
    /\ Len(input) >= 3 /\ input[Len(input)] = 10
    /\ \E i \in 1 .. Len(SplitLines(input)) - 1 : SplitLines(input)[i] = <<>>
    /\ \E i \in 1 .. Len(SplitLines(input)) :
          SplitLines(input)[i] # <<>> /\ Head(SplitLines(input)[i]) = 32

----------------------------------------------------------------------------
(* C8 *)

\* C8: when a command's file is created, the file of every visited
\* descendant has been created, written and closed; the root's file is the
\* last one created; siblings are visited in the stored order.
C8_ChildrenFirst ==
    /\ \A j \in 1 .. Len(log) : log[j].op = "create" =>
          \A d \in Cmds : Visited(d) /\ log[j].cmd \in Ancestors(d) =>
              \E i1, i2, i3 \in 1 .. j - 1 :
                  /\ i1 < i2 /\ i2 < i3
                  /\ i1 \in Events("create", d)
                  /\ i2 \in Events("write", d)
                  /\ i3 \in Events("close", d)
    /\ status = "ok" =>
          /\ Events("create", root) # {}
          /\ \A j \in Events("create", root), k \in 1 .. Len(log) :
                k > j => log[k].op # "create"
    /\ \A p \in Cmds : Visited(p) =>
          \A i, j \in 1 .. Len(given.commands[p]) :
              LET x == given.commands[p][i]
                  y == given.commands[p][j]
              IN  i < j /\ Visited(y) =>
                      /\ Eligible(x) => Visited(x) /\ VisitPos(x) < VisitPos(y)
                      /\ Visited(x) => \A k \in Events("create", y) :
                                          \E m \in Events("close", x) : m < k

\* a finished run over a command with two walked children, stored in
\* descending order of their names
C8_Witness ==
    /\ status = "ok"
    /\ \E x, y \in Children(root) :
          /\ Visited(x) /\ Visited(y) /\ VisitPos(x) < VisitPos(y)
          /\ StrLess(name[y], name[x])

----------------------------------------------------------------------------
(* C9 *)

\* C9: at most one file is open; an open file belongs to an invocation that
\* has not returned; none is open when GenTree has returned.
C9_HandlesClosed ==
    /\ Cardinality(open) <= 1
    /\ \A c \in open : \E i \in 1 .. Len(stack) : stack[i].cmd = c
    /\ status \in {"ok", "error"} => open = {}

\* the write of the page failed below the root, after its file was opened
C9_Witness ==
    /\ status = "error" /\ err = "write" /\ open = {}
    /\ \E c \in Cmds :
          /\ c # root /\ Rendered(c)
          /\ Events("create", c) # {} /\ Events("write", c) = {}
          /\ Events("close", c) # {}

----------------------------------------------------------------------------
(* C10 *)

\* C10 as claimed: after a successful run every See Also link is the default
\* markup of the linked command's path and of the name of the file written
\* for that command.
C10_LinksNameFiles ==
    status = "ok" =>
        \A c \in Cmds : Rendered(c) =>
            \A i \in 1 .. Len(pages[c].entries) :
                LET t == pages[c].entries[i].short
                IN  pages[c].entries[i].link =
                        <<96>> \o FullPath(t) \o <<32, 60>> \o ExpectedBase(t)
                            \o <<62, 96, 95>>

====
